---- MODULE Spec2Model ----
(***************************************************************************)
(* CyanStore (src/src/crimson/os/cyan_store.cc): the in-memory object      *)
(* store of crimson.  The state is the store's tables (coll_map,           *)
(* new_coll_map, used_bytes), the heap of Collection and Object instances  *)
(* they point to, and the position of the do_transaction call in flight.   *)
(***************************************************************************)
EXTENDS Integers, Sequences, FiniteSets, TLC

(* ------------------------------ bounds -------------------------------- *)
\* collection identifiers are 1..MaxCid
MaxCid == 2
\* object identifiers are 1..MaxOid
MaxOid == 2
\* operations decoded over one behaviour
MaxOps == 4
\* create_new_collection calls over one behaviour
MaxCreates == 2
\* write offsets are 0..MaxOff, written buffers have 0..MaxLen bytes
MaxOff == 1
MaxLen == 1
\* truncate sizes are 0..MaxTrunc
MaxTrunc == 2
\* omap keys are 1..MaxKey (their order stands for the lexicographic one)
MaxKey == 1
\* attribute and omap values, omap headers: 1..MaxVal
MaxVal == 1
\* split bits of MKCOLL: 1..MaxBits
MaxBits == 1
\* SpecOmap: omap keys 1..MaxOmapKey, values 1..MaxOmapVal
MaxOmapKey == 2
MaxOmapVal == 2
\* SpecList: object identifiers 1..MaxListOid, limits 0..MaxLimit
MaxListOid == 3
MaxLimit == 2
\* SpecOmapGet: omap keys 1..MaxGetKey, pages of at most MaxPage entries
MaxGetKey == 3
MaxPage == 2
\* SpecRead: written buffers of 0..MaxReadLen bytes 1..MaxByte, reads at
\* offsets 0..MaxReadOff, attribute names 1..MaxAttrName asked for
MaxReadLen == 2
MaxByte == 2
MaxReadOff == 2
MaxAttrName == 2
\* SpecPersist, SpecMkfs: fsids 1..MaxFsid (0 is the zero fsid), at most
\* MaxCalls calls of mkfs, mount and umount and constructions
MaxFsid == 2
MaxCalls == 3

(* ------------------------- program constants -------------------------- *)
ENOENT == 2
EEXIST == 17
EINVAL == 22

(* ------------------------------ domains ------------------------------- *)
Cids == 1..MaxCid
Oids == 1..MaxOid
Targets == Cids \X Oids
Offs == 0..MaxOff
Bufs == UNION {[1..n -> {1}] : n \in 0..MaxLen}
Sizes == 0..MaxTrunc
Keys == 1..MaxKey
Vals == 1..MaxVal
Names == {1}
Batches == UNION {[S -> Vals] : S \in SUBSET Keys}
KeySets == SUBSET Keys
Callbacks == <<"on_applied", "on_commit", "on_applied_sync">>

\* addresses of Collection and Object instances; 0 is the null reference
NullRef == 0
CollRefs == 1..(2 * MaxCid + 2)
ObjRefs == 1..(MaxCid * MaxOid + 1)
NoColl == [cid |-> 0]
NoObj == [free |-> TRUE]

VARIABLES
  coll_map,      \* cid -> CollectionRef: the committed collections
  new_coll_map,  \* cid -> CollectionRef: created, not yet committed
  colls,         \* heap: CollRefs -> Collection (or NoColl)
  objs,          \* heap: ObjRefs -> Object (or NoObj)
  used_bytes,    \* the store's byte counter
  omit_write,    \* conf memstore_debug_omit_block_device_write
  pc,            \* "idle" | "loop" | "halted" | "aborted"
  r,             \* do_transaction's status
  left,          \* operations not yet decoded from the transaction's stream
  nops,          \* operations decoded so far in this behaviour
  ncreates,      \* create_new_collection calls so far in this behaviour
  op,            \* the operation decoded last
  ret,           \* the status its handler returned
  registered,    \* the completion callbacks the transaction carries
  completed,     \* the callbacks invoked, in order, each with its result
  dumped,        \* whether the transaction dump has been logged
  query,         \* the client's last query: its arguments and what it returned
  ch,            \* the collection handle passed to do_transaction
  files,         \* the files under the store's path
  osd_fsid,      \* the store's fsid member
  collections,   \* umount's set of the collections written so far
  snap,          \* what the last completed umount saved
  calls,         \* mkfs, mount, umount calls and constructions so far
  lastcall       \* the last such call and how it ended

store == <<coll_map, new_coll_map, colls, objs, used_bytes>>
txn == <<pc, r, left, nops, op, ret, registered, completed, dumped>>
persist == <<files, osd_fsid, collections, snap, calls, lastcall>>
vars == <<coll_map, new_coll_map, colls, objs, used_bytes, omit_write,
          ncreates, pc, r, left, nops, op, ret, registered, completed, dumped,
          query, ch, files, osd_fsid, collections, snap, calls, lastcall>>

(* ------------------------------ helpers ------------------------------- *)
EmptyMap == [x \in {} |-> 0]
Put(m, k, v) == [x \in (DOMAIN m) \cup {k} |-> IF x = k THEN v ELSE m[x]]
Erase(m, k) == [x \in (DOMAIN m) \ {k} |-> m[x]]
Range(m) == {m[x] : x \in DOMAIN m}
Min(S) == CHOOSE x \in S : \A y \in S : x <= y
Zeros(n) == [i \in 1..n |-> 0]

RECURSIVE SumOver(_, _)
SumOver(f, S) ==
  IF S = {} THEN 0
  ELSE LET x == CHOOSE y \in S : TRUE IN f[x] + SumOver(f, S \ {x})

(* ------------------------- Object, Collection ------------------------- *)
\* Object{}: no content, no attributes, an empty omap and omap header
NewObject == [data |-> <<>>, xattr |-> EmptyMap, omap |-> EmptyMap,
              omap_header |-> 0]
get_size(o) == Len(o.data)

\* Object::read(offset, len, bl): the len bytes from offset on
ObjectRead(o, offset, len) == SubSeq(o.data, offset + 1, offset + len)

\* Object::write(offset, bl): the gap up to offset is zero-filled, bl
\* replaces the bytes at offset, the bytes past offset + len are kept
ObjectWrite(o, offset, bl) ==
  LET size == Len(o.data)
      head == IF size >= offset THEN SubSeq(o.data, 1, offset)
              ELSE o.data \o Zeros(offset - size)
      tail == IF size > offset + Len(bl)
              THEN SubSeq(o.data, offset + Len(bl) + 1, size) ELSE <<>>
  IN [o EXCEPT !.data = head \o bl \o tail]

\* Object::truncate(size): grows with zeros or drops the trailing bytes
ObjectTruncate(o, size) ==
  [o EXCEPT !.data = IF size > Len(o.data)
                     THEN o.data \o Zeros(size - Len(o.data))
                     ELSE SubSeq(o.data, 1, size)]

\* Collection{cid}
NewCollection(cid) == [cid |-> cid, bits |-> 0, exists |-> TRUE,
                       object_map |-> EmptyMap, object_hash |-> EmptyMap]

\* Collection::get_object(oid): the hash index's entry, or null
get_object(cs, c, oid) ==
  IF oid \in DOMAIN cs[c].object_hash THEN cs[c].object_hash[oid] ELSE NullRef

\* the address the allocator hands out: any free one (the least, here)
FreshObj(os) == Min({x \in ObjRefs : os[x] = NoObj})
FreshColl(cs) == Min({x \in CollRefs : cs[x] = NoColl})

\* Collection::get_or_create_object(oid): an absent oid gets a new Object,
\* entered in object_hash and object_map
goc_ref(cs, os, c, oid) ==
  IF oid \in DOMAIN cs[c].object_hash THEN cs[c].object_hash[oid]
  ELSE FreshObj(os)
goc_colls(cs, os, c, oid) ==
  IF oid \in DOMAIN cs[c].object_hash THEN cs
  ELSE [cs EXCEPT ![c].object_hash = Put(@, oid, FreshObj(os)),
                  ![c].object_map = Put(@, oid, FreshObj(os))]
goc_objs(cs, os, c, oid) ==
  IF oid \in DOMAIN cs[c].object_hash THEN os
  ELSE [os EXCEPT ![FreshObj(os)] = NewObject]

\* intrusive_ptr: an Object no index refers to any more is destroyed
Referenced(cs) ==
  UNION {Range(cs[c].object_map) \cup Range(cs[c].object_hash) :
         c \in {x \in CollRefs : cs[x] # NoColl}}
Sweep(cs, os) == [x \in ObjRefs |-> IF x \in Referenced(cs) THEN os[x] ELSE NoObj]
\* a Collection that neither table nor a client's handle (held) refers to
\* any more is destroyed
SweepColls(cm, ncm, held, cs) ==
  [x \in CollRefs |-> IF x \in Range(cm) \cup Range(ncm) \cup held THEN cs[x]
                      ELSE NoColl]

(* ------------------------- handlers of the store ---------------------- *)
\* what a handler returns: its status and the store it leaves; abort is set
\* when it ends the process instead of returning
Cur == [r |-> 0, abort |-> FALSE, coll_map |-> coll_map,
        new_coll_map |-> new_coll_map, colls |-> colls, objs |-> objs,
        used_bytes |-> used_bytes]
Fail(e) == [Cur EXCEPT !.r = -e]

\* _get_collection that takes the handle passed to do_transaction
_get_collection_of_handle(cid) == ch

_get_collection(cid) ==
  IF cid \in DOMAIN coll_map THEN coll_map[cid] ELSE NullRef

\* _remove that leaves the object in object_map
_remove_hash_only(cid, oid) ==
  LET c == _get_collection(cid) IN
  IF c = NullRef THEN Fail(ENOENT)
  ELSE IF oid \notin DOMAIN colls[c].object_hash THEN Fail(ENOENT)
  ELSE LET o == colls[c].object_hash[oid]
           cs == [colls EXCEPT ![c].object_hash = Erase(@, oid)]
       IN [Cur EXCEPT !.used_bytes = used_bytes - get_size(objs[o]),
                      !.colls = cs, !.objs = Sweep(cs, objs)]

_remove(cid, oid) ==
  LET c == _get_collection(cid) IN
  IF c = NullRef THEN Fail(ENOENT)
  ELSE IF oid \notin DOMAIN colls[c].object_hash THEN Fail(ENOENT)
  ELSE LET o == colls[c].object_hash[oid]
           cs == [colls EXCEPT ![c].object_hash = Erase(@, oid),
                               ![c].object_map = Erase(@, oid)]
       IN [Cur EXCEPT !.used_bytes = used_bytes - get_size(objs[o]),
                      !.colls = cs, !.objs = Sweep(cs, objs)]

_touch(cid, oid) ==
  LET c == _get_collection(cid) IN
  IF c = NullRef THEN Fail(ENOENT)
  ELSE [Cur EXCEPT !.colls = goc_colls(colls, objs, c, oid),
                   !.objs = goc_objs(colls, objs, c, oid)]

\* _write that does not look at the omit flag
_write_ignores_flag(cid, oid, offset, len, bl) ==
  LET c == _get_collection(cid) IN
  IF c = NullRef THEN Fail(ENOENT)
  ELSE LET o == goc_ref(colls, objs, c, oid)
           cs == goc_colls(colls, objs, c, oid)
           os == goc_objs(colls, objs, c, oid)
       IN IF len > 0
          THEN LET old_size == get_size(os[o])
                   written == ObjectWrite(os[o], offset, bl)
               IN [Cur EXCEPT !.colls = cs,
                              !.objs = [os EXCEPT ![o] = written],
                              !.used_bytes = used_bytes + (get_size(written) - old_size)]
          ELSE [Cur EXCEPT !.colls = cs, !.objs = os]

_write(cid, oid, offset, len, bl) ==
  LET c == _get_collection(cid) IN
  IF c = NullRef THEN Fail(ENOENT)
  ELSE LET o == goc_ref(colls, objs, c, oid)
           cs == goc_colls(colls, objs, c, oid)
           os == goc_objs(colls, objs, c, oid)
       IN IF len > 0 /\ ~omit_write
          THEN LET old_size == get_size(os[o])
                   written == ObjectWrite(os[o], offset, bl)
               IN [Cur EXCEPT !.colls = cs,
                              !.objs = [os EXCEPT ![o] = written],
                              !.used_bytes = used_bytes + (get_size(written) - old_size)]
          ELSE [Cur EXCEPT !.colls = cs, !.objs = os]

_omap_set_values(cid, oid, aset) ==
  LET c == _get_collection(cid) IN
  IF c = NullRef THEN Fail(ENOENT)
  ELSE LET o == goc_ref(colls, objs, c, oid)
           cs == goc_colls(colls, objs, c, oid)
           os == goc_objs(colls, objs, c, oid)
           \* std::map::insert: a key already present keeps its value
           merged == [k \in (DOMAIN os[o].omap) \cup (DOMAIN aset) |->
                        IF k \in DOMAIN os[o].omap THEN os[o].omap[k] ELSE aset[k]]
       IN [Cur EXCEPT !.colls = cs, !.objs = [os EXCEPT ![o].omap = merged]]

_omap_set_header(cid, oid, header) ==
  LET c == _get_collection(cid) IN
  IF c = NullRef THEN Fail(ENOENT)
  ELSE LET o == goc_ref(colls, objs, c, oid)
           cs == goc_colls(colls, objs, c, oid)
           os == goc_objs(colls, objs, c, oid)
       IN [Cur EXCEPT !.colls = cs, !.objs = [os EXCEPT ![o].omap_header = header]]

_omap_rmkeys(cid, oid, aset) ==
  LET c == _get_collection(cid) IN
  IF c = NullRef THEN Fail(ENOENT)
  ELSE LET o == goc_ref(colls, objs, c, oid)
           cs == goc_colls(colls, objs, c, oid)
           os == goc_objs(colls, objs, c, oid)
           kept == [k \in (DOMAIN os[o].omap) \ aset |-> os[o].omap[k]]
       IN [Cur EXCEPT !.colls = cs, !.objs = [os EXCEPT ![o].omap = kept]]

_omap_rmkeyrange(cid, oid, first, last) ==
  LET c == _get_collection(cid) IN
  IF c = NullRef THEN Fail(ENOENT)
  ELSE LET o == goc_ref(colls, objs, c, oid)
           cs == goc_colls(colls, objs, c, oid)
           os == goc_objs(colls, objs, c, oid)
           \* from lower_bound(first) while the key is <= last
           kept == [k \in {x \in DOMAIN os[o].omap : ~(first <= x /\ x <= last)}
                      |-> os[o].omap[k]]
       IN [Cur EXCEPT !.colls = cs, !.objs = [os EXCEPT ![o].omap = kept]]

\* _truncate that does not adjust used_bytes
_truncate_no_count(cid, oid, size) ==
  LET c == _get_collection(cid) IN
  IF c = NullRef THEN Fail(ENOENT)
  ELSE LET o == get_object(colls, c, oid) IN
       IF o = NullRef THEN Fail(ENOENT)
       ELSE IF omit_write THEN Cur
       ELSE [Cur EXCEPT !.objs = [objs EXCEPT ![o] = ObjectTruncate(objs[o], size)]]

_truncate(cid, oid, size) ==
  LET c == _get_collection(cid) IN
  IF c = NullRef THEN Fail(ENOENT)
  ELSE LET o == get_object(colls, c, oid) IN
       IF o = NullRef THEN Fail(ENOENT)
       ELSE IF omit_write THEN Cur
       ELSE LET old_size == get_size(objs[o])
                cut == ObjectTruncate(objs[o], size)
            IN [Cur EXCEPT !.objs = [objs EXCEPT ![o] = cut],
                           !.used_bytes = used_bytes + (get_size(cut) - old_size)]

\* _setattrs that gets or creates the object, as _omap_set_values does
_setattrs_creates(cid, oid, aset) ==
  LET c == _get_collection(cid) IN
  IF c = NullRef THEN Fail(ENOENT)
  ELSE LET o == goc_ref(colls, objs, c, oid)
           cs == goc_colls(colls, objs, c, oid)
           os == goc_objs(colls, objs, c, oid)
           set == [k \in (DOMAIN os[o].xattr) \cup (DOMAIN aset) |->
                     IF k \in DOMAIN aset THEN aset[k] ELSE os[o].xattr[k]]
       IN [Cur EXCEPT !.colls = cs, !.objs = [os EXCEPT ![o].xattr = set]]

_setattrs(cid, oid, aset) ==
  LET c == _get_collection(cid) IN
  IF c = NullRef THEN Fail(ENOENT)
  ELSE LET o == get_object(colls, c, oid) IN
       IF o = NullRef THEN Fail(ENOENT)
       ELSE LET set == [k \in (DOMAIN objs[o].xattr) \cup (DOMAIN aset) |->
                          IF k \in DOMAIN aset THEN aset[k] ELSE objs[o].xattr[k]]
            IN [Cur EXCEPT !.objs = [objs EXCEPT ![o].xattr = set]]

\* _create_collection that leaves the entry in new_coll_map
_create_collection_keeps_pending(cid, bits) ==
  IF cid \in DOMAIN coll_map THEN Fail(EEXIST)
  ELSE IF cid \notin DOMAIN new_coll_map
       THEN [Cur EXCEPT !.abort = TRUE, !.coll_map = Put(coll_map, cid, NullRef)]
       ELSE LET c == new_coll_map[cid] IN
            [Cur EXCEPT !.coll_map = Put(coll_map, cid, c),
                        !.colls = [colls EXCEPT ![c].bits = bits]]

_create_collection(cid, bits) ==
  IF cid \in DOMAIN coll_map THEN Fail(EEXIST)
  ELSE IF cid \notin DOMAIN new_coll_map
       \* assert(p != new_coll_map.end()) after the null entry went in
       THEN [Cur EXCEPT !.abort = TRUE, !.coll_map = Put(coll_map, cid, NullRef)]
       ELSE LET c == new_coll_map[cid] IN
            [Cur EXCEPT !.coll_map = Put(coll_map, cid, c),
                        !.colls = [colls EXCEPT ![c].bits = bits],
                        !.new_coll_map = Erase(new_coll_map, cid)]

(* ----------------------------- the store ------------------------------ *)
NoOp == [kind |-> "none"]
NoQuery == [call |-> "none"]
\* a file that is not there; uuid_d() is the zero fsid
NoFile == [absent |-> TRUE]
NoSnap == [saved |-> FALSE]
NoCall == [call |-> "none"]

Init ==
  /\ coll_map = EmptyMap
  /\ new_coll_map = EmptyMap
  /\ colls = [x \in CollRefs |-> NoColl]
  /\ objs = [x \in ObjRefs |-> NoObj]
  /\ used_bytes = 0
  /\ omit_write \in BOOLEAN
  /\ pc = "idle"
  /\ r = 0
  /\ left = 0
  /\ nops = 0
  /\ ncreates = 0
  /\ op = NoOp
  /\ ret = 0
  /\ registered = {}
  /\ completed = <<>>
  /\ dumped = FALSE
  /\ query = NoQuery
  /\ ch = NullRef
  /\ files = [fsid |-> NoFile, type |-> NoFile, collections |-> NoFile,
              coll |-> [cid \in Cids |-> NoFile]]
  /\ osd_fsid = 0
  /\ collections = {}
  /\ snap = NoSnap
  /\ calls = 0
  /\ lastcall = NoCall

\* the handle the client's query in progress holds
Held == IF query.call = "none" THEN {} ELSE {query.c}

\* create_new_collection(cid): a new Collection enters the pending table
\* (the one it replaces there is released)
create_new_collection(cid) ==
  /\ pc = "idle"
  /\ ncreates < MaxCreates
  /\ ncreates' = ncreates + 1
  /\ LET c == FreshColl(colls)
         ncm == Put(new_coll_map, cid, c)
     IN /\ new_coll_map' = ncm
        /\ colls' = SweepColls(coll_map, ncm, Held,
                               [colls EXCEPT ![c] = NewCollection(cid)])
  /\ UNCHANGED <<coll_map, objs, used_bytes, omit_write, query, ch>>
  /\ UNCHANGED txn
  /\ UNCHANGED persist

(* --------------------------- do_transaction --------------------------- *)
\* entry: r = 0, the iterator at the head of a stream of n operations
\* (a client that mutates the store has left its listing and its handle)
Begin(RegSets, Chs) ==
  /\ pc = "idle"
  /\ \E n \in 0..(MaxOps - nops), cbs \in RegSets, h \in Chs :
       /\ left' = n
       /\ registered' = cbs
       /\ ch' = h
  /\ pc' = "loop"
  /\ r' = 0
  /\ op' = NoOp
  /\ ret' = 0
  /\ completed' = <<>>
  /\ query' = NoQuery
  /\ colls' = SweepColls(coll_map, new_coll_map, {ch'}, colls)
  /\ UNCHANGED <<nops, ncreates, dumped, omit_write>>
  /\ UNCHANGED <<coll_map, new_coll_map, objs, used_bytes>>
  /\ UNCHANGED persist

\* a loop that goes on after a negative status
Decode_no_break(o) ==
  /\ pc = "loop"
  /\ left > 0
  /\ left' = left - 1
  /\ nops' = nops + 1
  /\ op' = o
  /\ UNCHANGED <<omit_write, ncreates, registered, completed, dumped, query, ch>>
  /\ UNCHANGED persist

\* while (i.have_op()) { op = i.decode_op(); r = 0; ...
Decode(o) ==
  /\ pc = "loop"
  /\ r = 0
  /\ left > 0
  /\ left' = left - 1
  /\ nops' = nops + 1
  /\ op' = o
  /\ UNCHANGED <<omit_write, ncreates, registered, completed, dumped, query, ch>>
  /\ UNCHANGED persist

\* ... r = <handler>; if (r < 0) break; }
Apply(res) ==
  /\ ret' = res.r
  /\ r' = res.r
  /\ coll_map' = res.coll_map
  /\ new_coll_map' = res.new_coll_map
  /\ colls' = res.colls
  /\ objs' = res.objs
  /\ used_bytes' = res.used_bytes
  /\ pc' = IF res.abort THEN "aborted" ELSE pc

\* OP_REMOVE that passes -ENOENT on
remove_status_raw(rr) == rr

\* OP_REMOVE: -ENOENT counts as success
remove_status(rr) == IF rr = -ENOENT THEN 0 ELSE rr

ApplyRemove(res) ==
  /\ ret' = res.r
  /\ r' = remove_status(res.r)
  /\ coll_map' = res.coll_map
  /\ new_coll_map' = res.new_coll_map
  /\ colls' = res.colls
  /\ objs' = res.objs
  /\ used_bytes' = res.used_bytes
  /\ pc' = pc

OpNop ==
  /\ Decode([kind |-> "OP_NOP"])
  /\ Apply(Cur)

OpRemove(T) ==
  \E t \in T :
    /\ Decode([kind |-> "OP_REMOVE", cid |-> t[1], oid |-> t[2]])
    /\ ApplyRemove(_remove(t[1], t[2]))

OpTouch(T) ==
  \E t \in T :
    /\ Decode([kind |-> "OP_TOUCH", cid |-> t[1], oid |-> t[2]])
    /\ Apply(_touch(t[1], t[2]))

OpWrite(T, B) ==
  \E t \in T, off \in Offs, bl \in B :
    /\ Decode([kind |-> "OP_WRITE", cid |-> t[1], oid |-> t[2],
               off |-> off, len |-> Len(bl), bl |-> bl])
    /\ Apply(_write(t[1], t[2], off, Len(bl), bl))

OpTruncate(T) ==
  \E t \in T, size \in Sizes :
    /\ Decode([kind |-> "OP_TRUNCATE", cid |-> t[1], oid |-> t[2], off |-> size])
    /\ Apply(_truncate(t[1], t[2], size))

OpSetattr(T) ==
  \E t \in T, name \in Names, v \in Vals :
    /\ Decode([kind |-> "OP_SETATTR", cid |-> t[1], oid |-> t[2],
               name |-> name, val |-> v])
    /\ Apply(_setattrs(t[1], t[2], [k \in {name} |-> v]))

OpMkcoll(C) ==
  \E cid \in C, bits \in 1..MaxBits :
    /\ Decode([kind |-> "OP_MKCOLL", cid |-> cid, split_bits |-> bits])
    /\ Apply(_create_collection(cid, bits))

OpOmapSetkeys(T, B) ==
  \E t \in T, aset \in B :
    /\ Decode([kind |-> "OP_OMAP_SETKEYS", cid |-> t[1], oid |-> t[2], aset |-> aset])
    /\ Apply(_omap_set_values(t[1], t[2], aset))

OpOmapSetheader(T) ==
  \E t \in T, h \in Vals :
    /\ Decode([kind |-> "OP_OMAP_SETHEADER", cid |-> t[1], oid |-> t[2], header |-> h])
    /\ Apply(_omap_set_header(t[1], t[2], h))

OpOmapRmkeys(T, K) ==
  \E t \in T, keys \in K :
    /\ Decode([kind |-> "OP_OMAP_RMKEYS", cid |-> t[1], oid |-> t[2], keys |-> keys])
    /\ Apply(_omap_rmkeys(t[1], t[2], keys))

OpOmapRmkeyrange(T, K) ==
  \E t \in T, first \in K, last \in K :
    /\ Decode([kind |-> "OP_OMAP_RMKEYRANGE", cid |-> t[1], oid |-> t[2],
               first |-> first, last |-> last])
    /\ Apply(_omap_rmkeyrange(t[1], t[2], first, last))

OpCollHint ==
  /\ Decode([kind |-> "OP_COLL_HINT"])
  /\ Apply(Cur)

\* default: an unknown operation code, abort()
OpBad ==
  /\ Decode([kind |-> "bad op"])
  /\ Apply([Cur EXCEPT !.abort = TRUE])

\* a decoder's exception leaves the loop: catch, r = -EINVAL
DecodeThrows ==
  /\ Decode([kind |-> "malformed"])
  /\ Apply(Fail(EINVAL))

\* if (r < 0): the transaction dump, then ceph_assert(r == 0)
FatalCheck ==
  /\ pc = "loop"
  /\ r < 0
  /\ dumped' = TRUE
  /\ pc' = "halted"
  /\ UNCHANGED <<r, left, nops, op, ret, registered, completed, omit_write, ncreates, query, ch>>
  /\ UNCHANGED store
  /\ UNCHANGED persist

\* the callbacks taken in the opposite order
RECURSIVE Complete_reversed(_, _)
Complete_reversed(i, cbs) ==
  IF i > Len(Callbacks) THEN <<>>
  ELSE Complete_reversed(i + 1, cbs)
       \o (IF i \in cbs THEN <<[cb |-> Callbacks[i], result |-> 0]>> ELSE <<>>)

\* on_applied, on_commit, on_applied_sync: each one present gets complete(0)
RECURSIVE Complete(_, _)
Complete(i, cbs) ==
  IF i > Len(Callbacks) THEN <<>>
  ELSE (IF i \in cbs THEN <<[cb |-> Callbacks[i], result |-> 0]>> ELSE <<>>)
       \o Complete(i + 1, cbs)

Finish ==
  /\ pc = "loop"
  /\ r = 0
  /\ left = 0
  /\ completed' = Complete(1, registered)
  /\ pc' = "idle"
  /\ UNCHANGED <<r, left, nops, op, ret, registered, dumped, omit_write, ncreates, query, ch>>
  /\ UNCHANGED store
  /\ UNCHANGED persist

Next ==
  \/ \E cid \in Cids : create_new_collection(cid)
  \/ Begin({1..3}, {NullRef})
  \/ OpNop
  \/ OpRemove(Targets)
  \/ OpTouch(Targets)
  \/ OpWrite(Targets, Bufs)
  \/ OpTruncate(Targets)
  \/ OpSetattr(Targets)
  \/ OpMkcoll(Cids)
  \/ OpOmapSetkeys(Targets, Batches)
  \/ OpOmapSetheader(Targets)
  \/ OpOmapRmkeys(Targets, KeySets)
  \/ OpOmapRmkeyrange(Targets, Keys)
  \/ OpCollHint
  \/ OpBad
  \/ DecodeThrows
  \/ FatalCheck
  \/ Finish

Spec == Init /\ [][Next]_vars

\* transactions that carry any subset of the three callbacks, over one
\* collection and one object
CbTargets == {<<1, 1>>}
NextCb ==
  \/ create_new_collection(1)
  \/ Begin(SUBSET (1..3), {NullRef})
  \/ OpNop
  \/ OpMkcoll({1})
  \/ OpTouch(CbTargets)
  \/ OpTruncate(CbTargets)
  \/ OpBad
  \/ DecodeThrows
  \/ FatalCheck
  \/ Finish

SpecCb == Init /\ [][NextCb]_vars

\* omap operations on one object, with two keys and two values
OmapKeys == 1..MaxOmapKey
OmapVals == 1..MaxOmapVal
OmapBatches == UNION {[S -> OmapVals] : S \in SUBSET OmapKeys}
OmapTargets == {<<1, 1>>}
NextOmap ==
  \/ create_new_collection(1)
  \/ Begin({1..3}, {NullRef})
  \/ OpMkcoll({1})
  \/ OpRemove(OmapTargets)
  \/ OpOmapSetkeys(OmapTargets, OmapBatches)
  \/ OpOmapRmkeys(OmapTargets, SUBSET OmapKeys)
  \/ OpOmapRmkeyrange(OmapTargets, OmapKeys)
  \/ FatalCheck
  \/ Finish

SpecOmap == Init /\ [][NextOmap]_vars

(* ---------------------------- list_objects ---------------------------- *)
\* ghobject_t() and ghobject_t::get_max(): below and above every identifier
OidMin == 0
OidMax == MaxListOid + 1
ListOids == 1..MaxListOid
ListTargets == {1} \X ListOids
Cursors == OidMin..OidMax

\* a loop that leaves next at get_max() when the limit stops it
RECURSIVE list_loop_no_cursor(_, _, _, _)
list_loop_no_cursor(S, end, limit, objects) ==
  IF S = {} THEN [objects |-> objects, next |-> OidMax]
  ELSE LET oid == Min(S) IN
       IF oid >= end THEN [objects |-> objects, next |-> oid]
       ELSE IF Len(objects) >= limit THEN [objects |-> objects, next |-> OidMax]
       ELSE list_loop_no_cursor(S \ {oid}, end, limit, Append(objects, oid))

\* the loop over object_map from its first identifier in S: next is the
\* identifier that stops it, get_max() when none does
RECURSIVE list_loop(_, _, _, _)
list_loop(S, end, limit, objects) ==
  IF S = {} THEN [objects |-> objects, next |-> OidMax]
  ELSE LET oid == Min(S) IN
       IF oid >= end \/ Len(objects) >= limit
       THEN [objects |-> objects, next |-> oid]
       ELSE list_loop(S \ {oid}, end, limit, Append(objects, oid))

\* list_objects from object_map.upper_bound(start)
list_objects_after_start(c, start, end, limit) ==
  list_loop({oid \in DOMAIN colls[c].object_map : oid > start}, end, limit, <<>>)

\* list_objects(c, start, end, limit): from object_map.lower_bound(start)
list_objects(c, start, end, limit) ==
  list_loop({oid \in DOMAIN colls[c].object_map : oid >= start}, end, limit, <<>>)

\* the handles a client can get: open_collection's and
\* create_new_collection's
Handles == (Range(coll_map) \cup Range(new_coll_map)) \ {NullRef}

\* a client's call of list_objects with arguments of its choice
ListFirst ==
  /\ pc = "idle"
  /\ query = NoQuery
  /\ \E c \in Handles, start \in Cursors, end \in Cursors, limit \in 0..MaxLimit :
       LET res == list_objects(c, start, end, limit) IN
       query' = [call |-> "list_objects", c |-> c, origin |-> start,
                 start |-> start, end |-> end, limit |-> limit,
                 objects |-> res.objects, next |-> res.next,
                 seen |-> res.objects]
  /\ UNCHANGED <<omit_write, ncreates, ch>>
  /\ UNCHANGED store
  /\ UNCHANGED txn
  /\ UNCHANGED persist

\* the next page: the same call with the cursor returned as its start
ListNext ==
  /\ pc = "idle"
  /\ query.call = "list_objects"
  /\ query.next # OidMax
  /\ LET res == list_objects(query.c, query.next, query.end, query.limit) IN
     query' = [query EXCEPT !.start = query.next, !.objects = res.objects,
                            !.next = res.next, !.seen = query.seen \o res.objects]
  /\ UNCHANGED <<omit_write, ncreates, ch>>
  /\ UNCHANGED store
  /\ UNCHANGED txn
  /\ UNCHANGED persist

NextList ==
  \/ create_new_collection(1)
  \/ Begin({1..3}, {NullRef})
  \/ OpMkcoll({1})
  \/ OpTouch(ListTargets)
  \/ OpRemove(ListTargets)
  \/ FatalCheck
  \/ Finish
  \/ ListFirst
  \/ ListNext

\* a client that pages through a listing goes on calling
SpecList == Init /\ [][NextList]_vars /\ WF_vars(ListNext)

(* ------------------- omap_get_values (range start) -------------------- *)
\* the page constant (declared with the class), scaled to the model's omaps
MAX_KEYS_PER_OMAP_GET_CALL == MaxPage
\* std::nullopt as start: below every key
NoStart == 0
GetKeys == 1..MaxGetKey
GetBatches == UNION {[S -> OmapVals] : S \in SUBSET GetKeys}

\* for (i = ...; values.size() < MAX_KEYS_PER_OMAP_GET_CALL && i != end; ++i)
\*   values.insert(*i);   K holds the keys from i on
RECURSIVE omap_get_loop(_, _, _)
omap_get_loop(omap, K, values) ==
  IF Cardinality(DOMAIN values) < MAX_KEYS_PER_OMAP_GET_CALL /\ K # {}
  THEN LET k == Min(K) IN omap_get_loop(omap, K \ {k}, Put(values, k, omap[k]))
  ELSE values

\* omap_get_values that starts at lower_bound(*start)
omap_get_values_from_start(c, oid, start) ==
  LET o == get_object(colls, c, oid) IN
  IF o = NullRef THEN [outcome |-> "runtime_error"]
  ELSE LET K == IF start # NoStart
                THEN {k \in DOMAIN objs[o].omap : k >= start}
                ELSE DOMAIN objs[o].omap
       IN [outcome |-> "ok", flag |-> TRUE,
           values |-> omap_get_loop(objs[o].omap, K, EmptyMap)]

\* omap_get_values whose flag tells whether keys remain after the page
omap_get_values_flag_computed(c, oid, start) ==
  LET o == get_object(colls, c, oid) IN
  IF o = NullRef THEN [outcome |-> "runtime_error"]
  ELSE LET K == IF start # NoStart
                THEN {k \in DOMAIN objs[o].omap : k > start}
                ELSE DOMAIN objs[o].omap
           values == omap_get_loop(objs[o].omap, K, EmptyMap)
       IN [outcome |-> "ok", flag |-> (K \ DOMAIN values # {}), values |-> values]

\* omap_get_values(c, oid, start): from upper_bound(*start), or from begin()
omap_get_values(c, oid, start) ==
  LET o == get_object(colls, c, oid) IN
  IF o = NullRef THEN [outcome |-> "runtime_error"]
  ELSE LET K == IF start # NoStart
                THEN {k \in DOMAIN objs[o].omap : k > start}
                ELSE DOMAIN objs[o].omap
       IN [outcome |-> "ok", flag |-> TRUE,
           values |-> omap_get_loop(objs[o].omap, K, EmptyMap)]

Max(S) == CHOOSE x \in S : \A y \in S : y <= x

\* a client's call of omap_get_values with arguments of its choice
OmapGetFirst ==
  /\ pc = "idle"
  /\ query = NoQuery
  /\ \E c \in Handles, start \in {NoStart} \cup GetKeys :
       LET res == omap_get_values(c, 1, start) IN
       query' = [call |-> "omap_get_values", c |-> c, oid |-> 1,
                 origin |-> start, start |-> start, res |-> res,
                 pages |-> IF res.outcome = "ok" THEN <<res.values>> ELSE <<>>]
  /\ UNCHANGED <<omit_write, ncreates, ch>>
  /\ UNCHANGED store
  /\ UNCHANGED txn
  /\ UNCHANGED persist

\* the next page: the same call with the last key returned as its start
OmapGetNext ==
  /\ pc = "idle"
  /\ query.call = "omap_get_values"
  /\ query.res.outcome = "ok"
  /\ query.res.values # EmptyMap
  /\ LET start == Max(DOMAIN query.res.values)
         res == omap_get_values(query.c, query.oid, start)
     IN query' = [query EXCEPT !.start = start, !.res = res,
                               !.pages = Append(query.pages, res.values)]
  /\ UNCHANGED <<omit_write, ncreates, ch>>
  /\ UNCHANGED store
  /\ UNCHANGED txn
  /\ UNCHANGED persist

NextOmapGet ==
  \/ create_new_collection(1)
  \/ Begin({1..3}, {NullRef})
  \/ OpMkcoll({1})
  \/ OpOmapSetkeys(OmapTargets, GetBatches)
  \/ OpOmapRmkeys(OmapTargets, SUBSET GetKeys)
  \/ FatalCheck
  \/ Finish
  \/ OmapGetFirst
  \/ OmapGetNext

\* a client that pages through an omap goes on calling
SpecOmapGet == Init /\ [][NextOmapGet]_vars /\ WF_vars(OmapGetNext)

(* ------------------ do_transaction with any handle -------------------- *)
\* transactions that come with any handle a client can hold, or none
NextFrame ==
  \/ \E cid \in Cids : create_new_collection(cid)
  \/ Begin({1..3}, Handles \cup {NullRef})
  \/ OpNop
  \/ OpRemove(Targets)
  \/ OpTouch(Targets)
  \/ OpWrite(Targets, Bufs)
  \/ OpTruncate(Targets)
  \/ OpSetattr(Targets)
  \/ OpMkcoll(Cids)
  \/ OpOmapSetkeys(Targets, Batches)
  \/ OpOmapSetheader(Targets)
  \/ OpOmapRmkeys(Targets, KeySets)
  \/ OpOmapRmkeyrange(Targets, Keys)
  \/ OpCollHint
  \/ FatalCheck
  \/ Finish

SpecFrame == Init /\ [][NextFrame]_vars

(* --------------------------- read, get_attr --------------------------- *)
ReadBufs == UNION {[1..n -> 1..MaxByte] : n \in 0..MaxReadLen}
ReadTargets == {<<1, 1>>}
QueryNames == 1..MaxAttrName

\* read for which any len of 0 asks for the rest of the object
read_zero_len_is_rest(c, oid, offset, len) ==
  IF ~colls[c].exists THEN [outcome |-> "runtime_error"]
  ELSE LET o == get_object(colls, c, oid) IN
       IF o = NullRef THEN [outcome |-> "runtime_error"]
       ELSE LET size == get_size(objs[o]) IN
            IF offset >= size THEN [outcome |-> "ok", bl |-> <<>>]
            ELSE LET l == IF len = 0 THEN size - offset
                          ELSE IF offset + len > size THEN size - offset
                          ELSE len
                 IN [outcome |-> "ok", bl |-> ObjectRead(objs[o], offset, l)]

\* read(c, oid, offset, len): the window clamped to the object's size; len
\* 0 at offset 0 asks for the entire object
read(c, oid, offset, len) ==
  IF ~colls[c].exists THEN [outcome |-> "runtime_error"]
  ELSE LET o == get_object(colls, c, oid) IN
       IF o = NullRef THEN [outcome |-> "runtime_error"]
       ELSE LET size == get_size(objs[o]) IN
            IF offset >= size THEN [outcome |-> "ok", bl |-> <<>>]
            ELSE LET l == IF len = 0 /\ offset = 0 THEN size
                          ELSE IF offset + len > size THEN size - offset
                          ELSE len
                 IN [outcome |-> "ok", bl |-> ObjectRead(objs[o], offset, l)]

\* get_attr that fails hard on an absent object, as get_attrs does
get_attr_hard_failure(c, oid, name) ==
  LET o == get_object(colls, c, oid) IN
  IF o = NullRef THEN [outcome |-> "runtime_error"]
  ELSE IF name \in DOMAIN objs[o].xattr
       THEN [outcome |-> "ok", value |-> objs[o].xattr[name]]
       ELSE [outcome |-> "EnoentException"]

\* get_attr(c, oid, name): the value, or EnoentException
get_attr(c, oid, name) ==
  LET o == get_object(colls, c, oid) IN
  IF o = NullRef THEN [outcome |-> "EnoentException"]
  ELSE IF name \in DOMAIN objs[o].xattr
       THEN [outcome |-> "ok", value |-> objs[o].xattr[name]]
       ELSE [outcome |-> "EnoentException"]

\* a client's call of read with arguments of its choice
Read ==
  /\ pc = "idle"
  /\ query = NoQuery
  /\ \E c \in Handles, t \in ReadTargets, offset \in 0..MaxReadOff,
        len \in 0..MaxReadLen :
       query' = [call |-> "read", c |-> c, oid |-> t[2], offset |-> offset,
                 len |-> len, res |-> read(c, t[2], offset, len)]
  /\ UNCHANGED <<omit_write, ncreates, ch>>
  /\ UNCHANGED store
  /\ UNCHANGED txn
  /\ UNCHANGED persist

\* a client's call of get_attr with arguments of its choice
GetAttr ==
  /\ pc = "idle"
  /\ query = NoQuery
  /\ \E c \in Handles, t \in ReadTargets, name \in QueryNames :
       query' = [call |-> "get_attr", c |-> c, oid |-> t[2], name |-> name,
                 res |-> get_attr(c, t[2], name)]
  /\ UNCHANGED <<omit_write, ncreates, ch>>
  /\ UNCHANGED store
  /\ UNCHANGED txn
  /\ UNCHANGED persist

NextRead ==
  \/ create_new_collection(1)
  \/ Begin({1..3}, {NullRef})
  \/ OpMkcoll({1})
  \/ OpTouch(ReadTargets)
  \/ OpWrite(ReadTargets, ReadBufs)
  \/ OpTruncate(ReadTargets)
  \/ OpSetattr(ReadTargets)
  \/ OpRemove(ReadTargets)
  \/ FatalCheck
  \/ Finish
  \/ Read
  \/ GetAttr

SpecRead == Init /\ [][NextRead]_vars

(* ------------------------ mkfs, mount, umount ------------------------- *)
\* what a failed write_file can leave behind
TornFile == [torn |-> TRUE]
File(data) == [data |-> data]
Fsids == 1..MaxFsid
PersistTargets == Cids \X {1}
txnrest == <<r, left, nops, op, ret, registered, completed, dumped>>

RECURSIVE SortedSeq(_)
SortedSeq(S) == IF S = {} THEN <<>> ELSE <<Min(S)>> \o SortedSeq(S \ {Min(S)})

\* ceph::encode(collections, bl) of a std::set<coll_t>, and its decode
encode_set(S) == SortedSeq(S)
decode_set(seq) == Range(seq)

\* Collection::encode: the bits and, by ascending identifier, each object
\* with its content, attributes, omap header and omap
encode_collection(cs, os, c) ==
  LET ids == SortedSeq(DOMAIN cs[c].object_map) IN
  [bits |-> cs[c].bits,
   objects |-> [i \in DOMAIN ids |-> <<ids[i], os[cs[c].object_map[ids[i]]]>>]]

\* Collection::decode: each encoded object becomes a new Object entered in
\* both indexes
RECURSIVE decode_objects(_, _, _, _)
decode_objects(objects, i, coll, os) ==
  IF i > Len(objects) THEN [coll |-> coll, objs |-> os]
  ELSE LET x == FreshObj(os)
           oid == objects[i][1]
       IN decode_objects(objects, i + 1,
                         [coll EXCEPT !.object_map = Put(@, oid, x),
                                      !.object_hash = Put(@, oid, x)],
                         [os EXCEPT ![x] = objects[i][2]])

\* Collection::used_bytes(): the sizes of its objects added up
collection_used_bytes(coll, os) ==
  SumOver([oid \in DOMAIN coll.object_map |-> get_size(os[coll.object_map[oid]])],
          DOMAIN coll.object_map)

\* write_meta(key, value): value and a newline; read_meta(key): what
\* safe_read_file read, without its trailing whitespace
Newline == [char |-> "\n"]
write_meta(value) == File(<<value, Newline>>)
RECURSIVE trim_right(_)
trim_right(str) ==
  IF str # <<>> /\ str[Len(str)] = Newline THEN trim_right(SubSeq(str, 1, Len(str) - 1))
  ELSE str
read_meta(file) ==
  IF file = NoFile THEN [r |-> -ENOENT, str |-> <<>>]
  ELSE IF Len(file.data) > 0 THEN [r |-> Len(file.data), str |-> trim_right(file.data)]
  ELSE [r |-> 0, str |-> <<>>]

\* fmt::format("{}", uuid) and uuid_d::parse
format_fsid(id) == [uuid |-> id]
parse_ok(str) == Len(str) = 1 /\ str[1] \in [uuid : {0} \cup Fsids]
parse_fsid(str) == str[1].uuid

\* mkfs that adopts the fsid on disk without comparing it
mkfs_adopts(new_osd_fsid, gen, fail, torn) ==
  LET rm == read_meta(files.fsid)
      id == IF new_osd_fsid = 0 THEN gen ELSE new_osd_fsid
      thrown(f, o) == [files |-> f, osd_fsid |-> o, outcome |-> "throws"]
      rest(f, o) ==
        IF fail = "collections"
        THEN thrown([f EXCEPT !.collections = IF torn THEN TornFile ELSE @], o)
        ELSE LET f2 == [f EXCEPT !.collections = File(encode_set({}))] IN
             IF fail = "type" THEN thrown(f2, o)
             ELSE [files |-> [f2 EXCEPT !.type = write_meta([text |-> "memstore"])],
                   osd_fsid |-> o, outcome |-> "ok"]
  IN IF rm.r = -ENOENT
     THEN IF fail = "fsid" THEN thrown(files, id)
          ELSE rest([files EXCEPT !.fsid = write_meta(format_fsid(id))], id)
     ELSE IF rm.r < 0 THEN thrown(files, osd_fsid)
     ELSE IF ~parse_ok(rm.str) THEN thrown(files, osd_fsid)
     ELSE rest(files, parse_fsid(rm.str))

\* mkfs(new_osd_fsid): gen is what generate_random() gives, fail the write
\* that fails (a failed write_file may leave the file torn)
mkfs(new_osd_fsid, gen, fail, torn) ==
  LET rm == read_meta(files.fsid)
      id == IF new_osd_fsid = 0 THEN gen ELSE new_osd_fsid
      thrown(f, o) == [files |-> f, osd_fsid |-> o, outcome |-> "throws"]
      rest(f, o) ==
        IF fail = "collections"
        THEN thrown([f EXCEPT !.collections = IF torn THEN TornFile ELSE @], o)
        ELSE LET f2 == [f EXCEPT !.collections = File(encode_set({}))] IN
             IF fail = "type" THEN thrown(f2, o)
             ELSE [files |-> [f2 EXCEPT !.type = write_meta([text |-> "memstore"])],
                   osd_fsid |-> o, outcome |-> "ok"]
  IN IF rm.r = -ENOENT
     THEN IF fail = "fsid" THEN thrown(files, id)
          ELSE rest([files EXCEPT !.fsid = write_meta(format_fsid(id))], id)
     ELSE IF rm.r < 0 THEN thrown(files, osd_fsid)
     ELSE IF ~parse_ok(rm.str) THEN thrown(files, osd_fsid)
     ELSE IF parse_fsid(rm.str) # new_osd_fsid
          THEN thrown(files, parse_fsid(rm.str))
          ELSE rest(files, parse_fsid(rm.str))

Mkfs ==
  /\ pc = "idle"
  /\ calls < MaxCalls
  /\ calls' = calls + 1
  /\ \E new_osd_fsid \in {0} \cup Fsids, gen \in Fsids,
        fail \in {"none", "fsid", "collections", "type"}, torn \in BOOLEAN :
       LET res == mkfs(new_osd_fsid, gen, fail, torn) IN
       /\ files' = res.files
       /\ osd_fsid' = res.osd_fsid
       /\ lastcall' = [call |-> "mkfs", fsid |-> new_osd_fsid, fail |-> fail,
                       formatted |-> (files.fsid # NoFile),
                       outcome |-> res.outcome]
  /\ snap' = NoSnap
  /\ UNCHANGED <<pc, collections, omit_write, ncreates, query, ch>>
  /\ UNCHANGED store
  /\ UNCHANGED txnrest

\* what mount has done so far
Mounting == [coll_map |-> coll_map, colls |-> colls, objs |-> objs,
             used_bytes |-> used_bytes, outcome |-> "ok"]

\* mount that does not decode the file into the Collection
mount_coll_no_decode(st, coll) ==
  LET file == files.coll[coll] IN
  IF st.outcome # "ok" THEN st
  ELSE IF file = NoFile \/ file = TornFile THEN [st EXCEPT !.outcome = "throws"]
  ELSE LET c == FreshColl(st.colls)
           cm == Put(st.coll_map, coll, c)
           cs == SweepColls(cm, new_coll_map, Held,
                            [st.colls EXCEPT ![c] = NewCollection(coll)])
       IN [st EXCEPT !.coll_map = cm, !.colls = cs, !.objs = Sweep(cs, st.objs)]

\* the body of mount's loop for one identifier of the manifest: read_file
\* (throws when it fails), decode (throws on a torn file), coll_map[coll] =
\* c (the Collection it replaces is released), used_bytes += c->used_bytes()
mount_coll(st, coll) ==
  LET file == files.coll[coll] IN
  IF st.outcome # "ok" THEN st
  ELSE IF file = NoFile \/ file = TornFile THEN [st EXCEPT !.outcome = "throws"]
  ELSE LET c == FreshColl(st.colls)
           d == decode_objects(file.data.objects, 1,
                               [NewCollection(coll) EXCEPT !.bits = file.data.bits],
                               st.objs)
           cm == Put(st.coll_map, coll, c)
           cs == SweepColls(cm, new_coll_map, Held, [st.colls EXCEPT ![c] = d.coll])
       IN [st EXCEPT !.coll_map = cm, !.colls = cs, !.objs = Sweep(cs, d.objs),
                     !.used_bytes = @ + collection_used_bytes(d.coll, d.objs)]

RECURSIVE mount_loop(_, _, _)
mount_loop(st, seq, i) ==
  IF i > Len(seq) THEN st ELSE mount_loop(mount_coll(st, seq[i]), seq, i + 1)

\* mount(): the manifest, then every collection it lists, in order
mount ==
  IF files.collections = NoFile \/ files.collections = TornFile
  THEN [Mounting EXCEPT !.outcome = "throws"]
  ELSE mount_loop(Mounting, SortedSeq(decode_set(files.collections.data)), 1)

Mount ==
  /\ pc = "idle"
  /\ calls < MaxCalls
  /\ calls' = calls + 1
  /\ LET res == mount IN
     /\ coll_map' = res.coll_map
     /\ colls' = res.colls
     /\ objs' = res.objs
     /\ used_bytes' = res.used_bytes
     /\ lastcall' = [call |-> "mount", outcome |-> res.outcome]
  /\ UNCHANGED <<new_coll_map, pc, files, osd_fsid, collections, snap, omit_write,
                 ncreates, query, ch>>
  /\ UNCHANGED txnrest

\* what the claims compare of a store: the committed identifiers and, per
\* collection, its objects with content, attributes and omap
Saved(cm, cs, os) ==
  [cid \in DOMAIN cm |->
     [oid \in DOMAIN cs[cm[cid]].object_map |->
        LET o == os[cs[cm[cid]].object_map[oid]] IN
        [data |-> o.data, xattr |-> o.xattr, omap |-> o.omap]]]

\* umount(): do_with(std::set<coll_t>{}, ...)
UmountBegin ==
  /\ pc = "idle"
  /\ calls < MaxCalls
  /\ calls' = calls + 1
  /\ pc' = "umount"
  /\ collections' = {}
  /\ snap' = NoSnap
  /\ lastcall' = [call |-> "umount", outcome |-> "pending"]
  /\ UNCHANGED <<files, osd_fsid, omit_write, ncreates, query, ch>>
  /\ UNCHANGED store
  /\ UNCHANGED txnrest

\* the next collection of coll_map: into the set, encoded, written to its
\* file; a failed write ends umount with the exception
UmountColl ==
  /\ pc = "umount"
  /\ DOMAIN coll_map \ collections # {}
  /\ LET col == Min(DOMAIN coll_map \ collections)
         bl == File(encode_collection(colls, objs, coll_map[col]))
     IN /\ collections' = collections \cup {col}
        /\ \E ok \in BOOLEAN, torn \in BOOLEAN :
             IF ok
             THEN /\ files' = [files EXCEPT !.coll[col] = bl]
                  /\ UNCHANGED <<pc, lastcall>>
             ELSE /\ files' = [files EXCEPT !.coll[col] = IF torn THEN TornFile ELSE @]
                  /\ pc' = "idle"
                  /\ lastcall' = [lastcall EXCEPT !.outcome = "throws"]
  /\ UNCHANGED <<osd_fsid, snap, calls, omit_write, ncreates, query, ch>>
  /\ UNCHANGED store
  /\ UNCHANGED txnrest

\* umount that writes the manifest whatever has been written
UmountManifest_early ==
  /\ pc = "umount"
  /\ \E ok \in BOOLEAN, torn \in BOOLEAN :
       IF ok
       THEN /\ files' = [files EXCEPT !.collections = File(encode_set(DOMAIN coll_map))]
            /\ lastcall' = [lastcall EXCEPT !.outcome = "ok"]
            /\ snap' = [saved |-> TRUE, store |-> Saved(coll_map, colls, objs)]
       ELSE /\ files' = [files EXCEPT !.collections = IF torn THEN TornFile ELSE @]
            /\ lastcall' = [lastcall EXCEPT !.outcome = "throws"]
            /\ snap' = snap
  /\ pc' = "idle"
  /\ UNCHANGED <<osd_fsid, collections, calls, omit_write, ncreates, query, ch>>
  /\ UNCHANGED store
  /\ UNCHANGED txnrest

\* .then(...): after the last collection, the set goes to the manifest
UmountManifest ==
  /\ pc = "umount"
  /\ DOMAIN coll_map \ collections = {}
  /\ \E ok \in BOOLEAN, torn \in BOOLEAN :
       IF ok
       THEN /\ files' = [files EXCEPT !.collections = File(encode_set(collections))]
            /\ lastcall' = [lastcall EXCEPT !.outcome = "ok"]
            /\ snap' = [saved |-> TRUE, store |-> Saved(coll_map, colls, objs)]
       ELSE /\ files' = [files EXCEPT !.collections = IF torn THEN TornFile ELSE @]
            /\ lastcall' = [lastcall EXCEPT !.outcome = "throws"]
            /\ snap' = snap
  /\ pc' = "idle"
  /\ UNCHANGED <<osd_fsid, collections, calls, omit_write, ncreates, query, ch>>
  /\ UNCHANGED store
  /\ UNCHANGED txnrest

\* the owner destroys the instance and constructs a new one over the path
Construct ==
  /\ pc = "idle"
  /\ calls < MaxCalls
  /\ calls' = calls + 1
  /\ coll_map' = EmptyMap
  /\ new_coll_map' = EmptyMap
  /\ colls' = [x \in CollRefs |-> NoColl]
  /\ objs' = [x \in ObjRefs |-> NoObj]
  /\ used_bytes' = 0
  /\ osd_fsid' = 0
  /\ query' = NoQuery
  /\ ch' = NullRef
  /\ lastcall' = [call |-> "construct"]
  /\ UNCHANGED <<pc, files, collections, snap, omit_write, ncreates>>
  /\ UNCHANGED txnrest

NextPersist ==
  \/ \E cid \in Cids : create_new_collection(cid)
  \/ Begin({1..3}, {NullRef})
  \/ OpMkcoll(Cids)
  \/ OpWrite(PersistTargets, Bufs \ {<<>>})
  \/ OpSetattr({<<1, 1>>})
  \/ OpOmapSetkeys({<<1, 1>>}, Batches \ {EmptyMap})
  \/ FatalCheck
  \/ Finish
  \/ Mount
  \/ UmountBegin
  \/ UmountColl
  \/ UmountManifest
  \/ Construct

SpecPersist == Init /\ [][NextPersist]_vars

NextMkfs ==
  \/ create_new_collection(1)
  \/ Begin({1..3}, {NullRef})
  \/ OpMkcoll({1})
  \/ FatalCheck
  \/ Finish
  \/ Mkfs
  \/ Mount
  \/ UmountBegin
  \/ UmountColl
  \/ UmountManifest
  \/ Construct

SpecMkfs == Init /\ [][NextMkfs]_vars

(* ------------------------------ claims -------------------------------- *)
\* a step of the dispatch loop: one more operation decoded and handled
Stepped == pc = "loop" /\ nops' = nops + 1
Committed == {cid \in DOMAIN coll_map : coll_map[cid] # NullRef}
LiveColls == {c \in CollRefs : colls[c] # NoColl}
Present(cid, oid) ==
  /\ cid \in Committed
  /\ oid \in DOMAIN colls[coll_map[cid]].object_hash
ObjectOf(cid, oid) == objs[colls[coll_map[cid]].object_map[oid]]
CollBytes(c) ==
  SumOver([oid \in DOMAIN colls[c].object_map |->
             Len(objs[colls[c].object_map[oid]].data)],
          DOMAIN colls[c].object_map)
LiveBytes == SumOver([cid \in Committed |-> CollBytes(coll_map[cid])], Committed)

\* C1: used_bytes is the sum of the content lengths of the objects of the
\* committed collections, in every reachable state.
C1_UsedBytesIsSum == used_bytes = LiveBytes

\* a REMOVE has just deleted an object while another one keeps its bytes
C1_Witness ==
  /\ pc = "loop" /\ op.kind = "OP_REMOVE" /\ ret = 0
  /\ used_bytes > 0
  /\ \E cid \in Committed : DOMAIN colls[coll_map[cid]].object_map # {}

\* C2: in every collection object_map and object_hash have the same keys,
\* each mapped to the same Object.
C2_IndexesAgree ==
  \A c \in LiveColls :
    /\ DOMAIN colls[c].object_map = DOMAIN colls[c].object_hash
    /\ \A oid \in DOMAIN colls[c].object_map :
         /\ colls[c].object_map[oid] = colls[c].object_hash[oid]
         /\ objs[colls[c].object_map[oid]] # NoObj

\* a REMOVE has just erased one object of a collection that holds another
C2_Witness ==
  /\ pc = "loop" /\ op.kind = "OP_REMOVE" /\ ret = 0
  /\ op.cid \in Committed
  /\ Cardinality(DOMAIN colls[coll_map[op.cid]].object_map) = 1
  /\ op.oid \notin DOMAIN colls[coll_map[op.cid]].object_hash

\* C3: once an operation has left a negative status nothing more is decoded
\* or applied and nothing is undone: the only step left is the transaction
\* dump and the fatal halt, which is final; and the loop ends normally only
\* with status 0 and the stream exhausted.
C3_FailFast ==
  /\ [][(pc = "loop" /\ r < 0) =>
          (pc' = "halted" /\ dumped' /\ UNCHANGED <<store, nops, left, completed>>)]_vars
  /\ [][(pc = "loop" /\ pc' = "idle") => (r = 0 /\ left = 0)]_vars
  /\ [][Stepped => (left' = left - 1 /\ r = 0)]_vars
  /\ [][pc = "halted" => FALSE]_vars
  /\ [](pc = "halted" => (dumped /\ r < 0))

\* halted with operations still in the stream and an earlier write in place
C3_Witness ==
  /\ pc = "halted" /\ left > 0 /\ dumped
  /\ nops >= 3
  /\ used_bytes > 0

\* C5: a REMOVE of an absent object succeeds and changes nothing of the
\* store; a REMOVE of a present one erases it and takes its length off
\* used_bytes.
C5_RemoveIdempotent ==
  [][(Stepped /\ op'.kind = "OP_REMOVE") =>
       IF Present(op'.cid, op'.oid)
       THEN /\ r' = 0 /\ pc' = "loop"
            /\ op'.oid \notin DOMAIN colls'[coll_map[op'.cid]].object_map
            /\ op'.oid \notin DOMAIN colls'[coll_map[op'.cid]].object_hash
            /\ used_bytes' = used_bytes - Len(ObjectOf(op'.cid, op'.oid).data)
       ELSE /\ r' = 0 /\ pc' = "loop"
            /\ UNCHANGED store]_vars

\* a REMOVE found no such object in an existing collection and went on
C5_Witness ==
  /\ pc = "loop" /\ op.kind = "OP_REMOVE"
  /\ ret = -ENOENT /\ r = 0
  /\ op.cid \in Committed
  /\ used_bytes > 0

\* C7 as stated: with the flag set a WRITE leaves the whole store as it was.
C7_WriteOmitNoop ==
  [][(Stepped /\ op'.kind = "OP_WRITE" /\ omit_write) => UNCHANGED store]_vars

\* C7 as amended: with the flag set a WRITE leaves used_bytes, both tables
\* and every existing object as they were; an absent target object of an
\* existing collection is still created, empty, in both indexes.
C7_WriteOmitKeepsContent ==
  [][(Stepped /\ op'.kind = "OP_WRITE" /\ omit_write) =>
       IF op'.cid \notin Committed
       THEN r' = -ENOENT /\ UNCHANGED store
       ELSE LET c == coll_map[op'.cid] IN
            /\ r' = 0
            /\ used_bytes' = used_bytes
            /\ coll_map' = coll_map /\ new_coll_map' = new_coll_map
            /\ \A x \in ObjRefs : objs[x] # NoObj => objs'[x] = objs[x]
            /\ \A d \in CollRefs \ {c} : colls'[d] = colls[d]
            /\ IF Present(op'.cid, op'.oid) THEN UNCHANGED store
               ELSE /\ colls'[c].object_map = Put(colls[c].object_map, op'.oid,
                                                   colls'[c].object_map[op'.oid])
                    /\ colls'[c].object_hash = Put(colls[c].object_hash, op'.oid,
                                                    colls'[c].object_map[op'.oid])
                    /\ objs[colls'[c].object_map[op'.oid]] = NoObj
                    /\ objs'[colls'[c].object_map[op'.oid]] = NewObject]_vars

\* right after MKCOLL, a WRITE of one byte under the flag: the object is
\* there and empty
C7_Witness ==
  /\ pc = "loop" /\ op.kind = "OP_WRITE" /\ op.len > 0 /\ omit_write
  /\ r = 0 /\ nops = 2
  /\ Present(op.cid, op.oid)
  /\ ObjectOf(op.cid, op.oid).data = <<>>
  /\ used_bytes = 0

\* C8: MKCOLL of a pending cid commits that very Collection with the bits
\* given and takes it out of new_coll_map; MKCOLL of a committed cid
\* returns -EEXIST and changes neither table.
C8_MkcollPromotes ==
  [][(Stepped /\ op'.kind = "OP_MKCOLL") =>
       IF op'.cid \in DOMAIN coll_map
       THEN r' = -EEXIST /\ coll_map' = coll_map /\ new_coll_map' = new_coll_map
       ELSE (op'.cid \in DOMAIN new_coll_map) =>
            LET c == new_coll_map[op'.cid] IN
            /\ r' = 0
            /\ coll_map' = Put(coll_map, op'.cid, c)
            /\ new_coll_map' = Erase(new_coll_map, op'.cid)
            /\ colls' = [colls EXCEPT ![c].bits = op'.split_bits]
            /\ colls'[c].cid = op'.cid]_vars

\* a MKCOLL has just committed a collection while another cid is pending
C8_Witness ==
  /\ pc = "loop" /\ op.kind = "OP_MKCOLL" /\ r = 0
  /\ op.cid \in Committed
  /\ colls[coll_map[op.cid]].bits = op.split_bits
  /\ op.cid \notin DOMAIN new_coll_map
  /\ DOMAIN new_coll_map # {}

\* how often callback i was invoked
Invoked(i) == Cardinality({j \in DOMAIN completed : completed[j].cb = Callbacks[i]})
CallbackIndex(cb) == CHOOSE i \in DOMAIN Callbacks : Callbacks[i] = cb

\* C4: while a transaction runs, and after one that failed, no callback has
\* been invoked; when it has returned, each callback it carries has been
\* invoked once, with result 0, in the order applied, committed,
\* applied-synchronously, and none it does not carry; the callbacks are
\* invoked in the step that ends a transaction whose stream is exhausted
\* with status 0.
C4_CallbacksOnceInOrder ==
  /\ [](pc \in {"loop", "halted", "aborted"} => completed = <<>>)
  /\ [](pc = "idle" =>
          /\ \A i \in DOMAIN Callbacks : Invoked(i) = IF i \in registered THEN 1 ELSE 0
          /\ \A j \in DOMAIN completed : completed[j].result = 0
          /\ \A j, k \in DOMAIN completed :
               j < k => CallbackIndex(completed[j].cb) < CallbackIndex(completed[k].cb))
  /\ [][(completed' # completed /\ completed' # <<>>) =>
          (pc = "loop" /\ r = 0 /\ left = 0 /\ pc' = "idle")]_vars

\* a transaction of two operations carrying the first and the last callback
\* has returned
C4_Witness ==
  /\ pc = "idle" /\ nops >= 2 /\ op.kind = "OP_TOUCH"
  /\ registered = {1, 3}
  /\ completed = <<[cb |-> "on_applied", result |-> 0],
                   [cb |-> "on_applied_sync", result |-> 0]>>

\* the omap of object (cid, oid), empty when there is no such object
OmapOf(cid, oid) == IF Present(cid, oid) THEN ObjectOf(cid, oid).omap ELSE EmptyMap

\* C6: after a successful OMAP_SETKEYS every key of the batch maps to the
\* batch's value, also a key that was there with another value, and the
\* other keys keep theirs.
C6_SetkeysOverwrites ==
  [][(Stepped /\ op'.kind = "OP_OMAP_SETKEYS" /\ r' = 0) =>
       LET old == OmapOf(op'.cid, op'.oid)
           new == objs'[colls'[coll_map'[op'.cid]].object_map[op'.oid]].omap
       IN /\ DOMAIN new = (DOMAIN old) \cup (DOMAIN op'.aset)
          /\ \A k \in DOMAIN op'.aset : new[k] = op'.aset[k]
          /\ \A k \in (DOMAIN old) \ (DOMAIN op'.aset) : new[k] = old[k]]_vars

\* the identifiers of collection c, those at or after start, those in
\* [start, end)
OidsOf(c) == DOMAIN colls[c].object_map
InRange(c, start, end) == {oid \in OidsOf(c) : start <= oid /\ oid < end}
Ascending(seq) == \A i, j \in DOMAIN seq : i < j => seq[i] < seq[j]
\* seq is the n least elements of S, ascending
LeastOf(seq, S, n) ==
  /\ Len(seq) = n
  /\ Ascending(seq)
  /\ Range(seq) \subseteq S
  /\ \A x \in S \ Range(seq) : \A i \in DOMAIN seq : seq[i] < x
Smaller(a, b) == IF a < b THEN a ELSE b
Listed == query.call = "list_objects"
\* a listing from the minimum to the maximum with the limit given
Paging == Listed /\ query.origin = OidMin /\ query.end = OidMax

\* C9 as stated: paging from the minimum to the maximum with any limit
\* leads to the maximum cursor, and the pages then hold every identifier of
\* the collection once, ascending.
C9_PagingCompletes ==
  /\ []((Paging /\ query.next = OidMax) =>
          LeastOf(query.seen, OidsOf(query.c), Cardinality(OidsOf(query.c))))
  /\ (Paging ~> (~Listed \/ query.next = OidMax))

\* C9 as amended: the same for a limit of at least 1.
C9_PagingCompletesPositiveLimit ==
  /\ []((Paging /\ query.limit >= 1 /\ query.next = OidMax) =>
          LeastOf(query.seen, OidsOf(query.c), Cardinality(OidsOf(query.c))))
  /\ ((Paging /\ query.limit >= 1) ~> (~Listed \/ query.next = OidMax))

\* three objects listed in two pages
C9_Witness ==
  /\ Paging /\ query.limit = 2 /\ query.next = OidMax
  /\ query.seen = <<1, 2, 3>>
  /\ query.objects = <<3>>

\* C10 as stated: after a call of list_objects the page is the first
\* min(limit, n) identifiers of [start, end), and the cursor is the maximum when all n are in the page,
\* else the first one left out.
C10_PageAndCursor ==
  Listed =>
    LET S == InRange(query.c, query.start, query.end)
        n == Cardinality(S)
    IN /\ LeastOf(query.objects, S, Smaller(query.limit, n))
       /\ query.next = IF Len(query.objects) = n THEN OidMax
                       ELSE Min(S \ Range(query.objects))

\* C10 as amended: after a call of list_objects the page is the first
\* min(limit, n) identifiers of [start, end); the cursor is the least identifier of the collection at or
\* after start that is not in the page (past end, when [start, end) is
\* exhausted), and the maximum when there is none.
C10_PageAndCursorOfMap ==
  Listed =>
    LET S == InRange(query.c, query.start, query.end)
        n == Cardinality(S)
        rest == {oid \in OidsOf(query.c) : oid >= query.start} \ Range(query.objects)
    IN /\ LeastOf(query.objects, S, Smaller(query.limit, n))
       /\ query.next = IF rest = {} THEN OidMax ELSE Min(rest)

\* [start, end) is exhausted below the limit and the cursor is an
\* identifier past end
C10_Witness ==
  /\ Listed
  /\ query.start = 1 /\ query.objects = <<1>> /\ query.limit = 2
  /\ query.end = 2 /\ query.next = 2
  /\ OidsOf(query.c) = {1, 2, 3}

\* the omap the client's omap query reads, the n least keys of S, and the
\* page omap_get_values is to return after start
QueriedOmap == objs[colls[query.c].object_hash[query.oid]].omap
OmapGot == query.call = "omap_get_values" /\ query.res.outcome = "ok"
LeastKeys(S, n) == {k \in S : Cardinality({j \in S : j < k}) < n}
After(omap, start) == {k \in DOMAIN omap : start = NoStart \/ k > start}
PageAfter(omap, start) ==
  [k \in LeastKeys(After(omap, start), MAX_KEYS_PER_OMAP_GET_CALL) |-> omap[k]]
PagedKeys == UNION {DOMAIN query.pages[i] : i \in DOMAIN query.pages}

\* C11: a call without start returns the min(page constant, size) least
\* entries; every call returns the least entries after its start; the pages
\* of a paging from the beginning are disjoint, ascending, leave no key out
\* up to the last one returned, hold the omap's values, and a page below the
\* page constant ends them with every key returned; the paging gets there.
C11_OmapPaging ==
  /\ [](OmapGot =>
          /\ query.res.values = PageAfter(QueriedOmap, query.start)
          /\ (query.start = NoStart =>
                Cardinality(DOMAIN query.res.values)
                  = Smaller(MAX_KEYS_PER_OMAP_GET_CALL, Cardinality(DOMAIN QueriedOmap))))
  /\ []((OmapGot /\ query.origin = NoStart) =>
          /\ \A i, j \in DOMAIN query.pages :
               i < j => \A a \in DOMAIN query.pages[i], b \in DOMAIN query.pages[j] : a < b
          /\ \A i \in DOMAIN query.pages :
               \A k \in DOMAIN query.pages[i] : query.pages[i][k] = QueriedOmap[k]
          /\ \A k \in DOMAIN QueriedOmap :
               (\E p \in PagedKeys : k <= p) => k \in PagedKeys
          /\ (Cardinality(DOMAIN query.res.values) < MAX_KEYS_PER_OMAP_GET_CALL
                => PagedKeys = DOMAIN QueriedOmap))
  /\ ((OmapGot /\ query.origin = NoStart)
        ~> (~OmapGot \/ PagedKeys = DOMAIN QueriedOmap))

\* three keys came back in two pages, the second after the last key of the
\* first
C11_Witness ==
  /\ OmapGot /\ query.origin = NoStart
  /\ Len(query.pages) = 2
  /\ DOMAIN query.pages[1] = {1, 2} /\ DOMAIN query.pages[2] = {3}
  /\ query.start = 2
  /\ DOMAIN QueriedOmap = {1, 2, 3}

\* C18: the flag omap_get_values returns is true on every call, whatever
\* the start key, the omap's size and the keys left after the page.
C18_FlagConstant == OmapGot => query.res.flag = TRUE

\* a full page with a key left after it, and the empty page after the last
\* key: the flag is the same
C18_Witness ==
  /\ OmapGot /\ query.res.flag = TRUE
  /\ Len(query.pages) = 3
  /\ query.pages[3] = EmptyMap
  /\ Cardinality(DOMAIN query.pages[1]) = MAX_KEYS_PER_OMAP_GET_CALL
  /\ After(QueriedOmap, Max(DOMAIN query.pages[1])) # {}

\* the client has read back, with the WRITE's offset and length, the object
\* the last operation of the last transaction wrote
ReadBack ==
  /\ pc = "idle" /\ query.call = "read"
  /\ op.kind = "OP_WRITE" /\ ret = 0
  /\ query.c = coll_map[op.cid] /\ query.oid = op.oid
  /\ query.offset = op.off /\ query.len = op.len

QueriedPresent == query.oid \in DOMAIN colls[query.c].object_hash
QueriedObject == objs[colls[query.c].object_hash[query.oid]]

\* C13: get_attr returns the value when the object and the attribute are
\* there, and EnoentException (no other failure) when either is absent;
\* after a transaction that ended with REMOVE(oid) the object is absent and
\* get_attr on it reports EnoentException.
C13_GetAttrNotFound ==
  /\ query.call = "get_attr" =>
       IF QueriedPresent /\ query.name \in DOMAIN QueriedObject.xattr
       THEN query.res = [outcome |-> "ok", value |-> QueriedObject.xattr[query.name]]
       ELSE query.res.outcome = "EnoentException"
  /\ (/\ query.call = "get_attr" /\ pc = "idle"
      /\ op.kind = "OP_REMOVE" /\ r = 0
      /\ op.cid \in Committed /\ query.c = coll_map[op.cid]
      /\ query.oid = op.oid)
       => (~Present(op.cid, op.oid) /\ query.res.outcome = "EnoentException")

\* MKCOLL and three operations on an object, the last a REMOVE that deleted
\* it; get_attr of the name that SETATTR sets reports not-found
C13_Witness ==
  /\ query.call = "get_attr" /\ pc = "idle"
  /\ op.kind = "OP_REMOVE" /\ ret = 0 /\ nops = 4
  /\ query.c = coll_map[op.cid] /\ query.oid = op.oid /\ query.name = 1
  /\ query.res.outcome = "EnoentException"

\* C17: a TRUNCATE or a SETATTR of an object that is absent from an
\* existing collection returns -ENOENT and leaves the store as it was.
C17_NoCreate ==
  [][(/\ Stepped /\ op'.kind \in {"OP_TRUNCATE", "OP_SETATTR"}
      /\ op'.cid \in Committed /\ ~Present(op'.cid, op'.oid))
       => (ret' = -ENOENT /\ r' = -ENOENT /\ UNCHANGED store)]_vars

\* a TRUNCATE to a positive size found no such object in a collection that
\* holds another one with content
C17_Witness ==
  /\ pc = "loop" /\ op.kind = "OP_TRUNCATE" /\ op.off > 0
  /\ ret = -ENOENT
  /\ op.cid \in Committed /\ ~Present(op.cid, op.oid)
  /\ DOMAIN colls[coll_map[op.cid]].object_map # {}
  /\ used_bytes > 0

SingleObjectOps ==
  {"OP_REMOVE", "OP_TOUCH", "OP_WRITE", "OP_TRUNCATE", "OP_SETATTR",
   "OP_OMAP_SETKEYS", "OP_OMAP_SETHEADER", "OP_OMAP_RMKEYS", "OP_OMAP_RMKEYRANGE"}
\* the Object instances that are object oid of Collection c before or after
\* the step
TargetRefs(c, oid) ==
  (IF oid \in DOMAIN colls[c].object_hash THEN {colls[c].object_hash[oid]} ELSE {})
  \cup (IF oid \in DOMAIN colls[c].object_map THEN {colls[c].object_map[oid]} ELSE {})
  \cup (IF oid \in DOMAIN colls'[c].object_hash THEN {colls'[c].object_hash[oid]} ELSE {})
  \cup (IF oid \in DOMAIN colls'[c].object_map THEN {colls'[c].object_map[oid]} ELSE {})
\* index m of a collection is the same before and after for identifier oid
SameEntry(before, after, oid) ==
  /\ (oid \in DOMAIN before) = (oid \in DOMAIN after)
  /\ (oid \in DOMAIN before) => after[oid] = before[oid]

\* C20: an operation on (cid, oid) leaves both tables, every collection but
\* the committed cid, every other identifier of that collection's two
\* indexes and every other Object as they were, whatever handle came with
\* the transaction, and the whole store when cid is not committed; NOP and
\* COLL_HINT leave the whole store as it was.
C20_Frame ==
  [][Stepped =>
       IF op'.kind \in {"OP_NOP", "OP_COLL_HINT"} THEN UNCHANGED store
       ELSE IF op'.kind \notin SingleObjectOps THEN TRUE
       ELSE IF op'.cid \notin Committed THEN UNCHANGED store
       ELSE LET c == coll_map[op'.cid] IN
            /\ coll_map' = coll_map /\ new_coll_map' = new_coll_map
            /\ \A d \in CollRefs \ {c} : colls'[d] = colls[d]
            /\ colls'[c].cid = colls[c].cid /\ colls'[c].bits = colls[c].bits
            /\ colls'[c].exists = colls[c].exists
            /\ \A o \in Oids \ {op'.oid} :
                 /\ SameEntry(colls[c].object_map, colls'[c].object_map, o)
                 /\ SameEntry(colls[c].object_hash, colls'[c].object_hash, o)
            /\ \A x \in ObjRefs \ TargetRefs(c, op'.oid) : objs'[x] = objs[x]]_vars

\* a WRITE has gone to an object with content in one committed collection
\* while the transaction's handle is another committed collection
C20_Witness ==
  /\ pc = "loop" /\ op.kind = "OP_WRITE" /\ r = 0
  /\ Cardinality(Committed) = 2
  /\ ch \in Range(coll_map) /\ ch # coll_map[op.cid]
  /\ Len(ObjectOf(op.cid, op.oid).data) > 0

MkfsStep == calls' = calls + 1 /\ lastcall'.call = "mkfs"
MountStep == calls' = calls + 1 /\ lastcall'.call = "mount"
PersistedFsid == parse_fsid(read_meta(files.fsid).str)
EmptyManifest == File(encode_set({}))
TypeMarker == write_meta([text |-> "memstore"])

\* C14 as stated: when no write fails, a mkfs that follows a successful mkfs
\* with the same identifier succeeds and leaves the files as they were, and
\* one with an identifier other than the persisted one throws and leaves the
\* persisted fsid as it was.
C14_MkfsTwice ==
  [][(/\ MkfsStep /\ lastcall'.fail = "none"
      /\ lastcall.call = "mkfs" /\ lastcall.outcome = "ok") =>
       /\ (lastcall'.fsid = lastcall.fsid
             => (lastcall'.outcome = "ok" /\ files' = files))
       /\ (lastcall'.fsid # PersistedFsid
             => (lastcall'.outcome = "throws" /\ files'.fsid = files.fsid))]_vars

\* C14 as amended: the same for an identifier that is not zero; and, when
\* no write fails, mkfs on an unformatted root persists the identifier
\* given (a generated one for zero), mkfs on a formatted root succeeds
\* exactly for the persisted identifier, a mkfs that succeeds leaves the
\* empty manifest and the type marker, one that throws for the identifier
\* leaves every file as it was.
C14_MkfsTwiceNonZero ==
  /\ [][(/\ MkfsStep /\ lastcall'.fail = "none"
          /\ lastcall.call = "mkfs" /\ lastcall.outcome = "ok") =>
           /\ ((lastcall'.fsid = lastcall.fsid /\ lastcall'.fsid # 0)
                 => (lastcall'.outcome = "ok" /\ files' = files))
           /\ (lastcall'.fsid # PersistedFsid
                 => (lastcall'.outcome = "throws" /\ files'.fsid = files.fsid))]_vars
  /\ [][(MkfsStep /\ lastcall'.fail = "none") =>
           IF files.fsid = NoFile
           THEN /\ lastcall'.outcome = "ok"
                /\ PersistedFsid' \in Fsids
                /\ lastcall'.fsid # 0 => PersistedFsid' = lastcall'.fsid
                /\ files'.collections = EmptyManifest /\ files'.type = TypeMarker
           ELSE IF lastcall'.fsid = PersistedFsid
           THEN /\ lastcall'.outcome = "ok"
                /\ files'.fsid = files.fsid
                /\ files'.collections = EmptyManifest /\ files'.type = TypeMarker
           ELSE lastcall'.outcome = "throws" /\ files' = files]_vars

\* mkfs with identifier 2 has succeeded on a root that was formatted, after
\* an umount had listed a collection in the manifest
C14_Witness ==
  /\ lastcall.call = "mkfs" /\ lastcall.formatted /\ lastcall.fsid = 2
  /\ lastcall.outcome = "ok" /\ calls = 3
  /\ files.collections = EmptyManifest
  /\ files.coll[1] # NoFile

\* C15: a mount that completes on a freshly constructed instance after a
\* completed umount gives the committed identifiers, objects, contents,
\* attributes and omaps the store had at that umount.
C15_SnapshotRoundTrip ==
  [][(/\ MountStep /\ lastcall'.outcome = "ok"
      /\ lastcall.call = "construct" /\ coll_map = EmptyMap
      /\ new_coll_map = EmptyMap /\ snap.saved)
       => Saved(coll_map', colls', objs') = snap.store]_vars

\* mounted again on a new instance: a collection, its object with a byte,
\* an attribute and an omap entry
C15_Witness ==
  /\ pc = "idle"
  /\ lastcall = [call |-> "mount", outcome |-> "ok"] /\ calls = 3
  /\ new_coll_map = EmptyMap
  /\ DOMAIN coll_map = {1}
  /\ snap.saved /\ Saved(coll_map, colls, objs) = snap.store
  /\ 1 \in DOMAIN snap.store[1]
  /\ snap.store[1][1].data # <<>>
  /\ snap.store[1][1].xattr # EmptyMap
  /\ snap.store[1][1].omap # EmptyMap
  /\ used_bytes = Len(snap.store[1][1].data)

\* the identifiers the persisted manifest lists
Listing ==
  IF files.collections = NoFile \/ files.collections = TornFile THEN {}
  ELSE decode_set(files.collections.data)

\* C16: every identifier the persisted manifest lists has its file, at
\* every point; and umount touches the manifest only when the file of every
\* committed collection holds that collection as it is.
C16_ManifestAfterFiles ==
  /\ [](\A cid \in Listing : files.coll[cid] # NoFile)
  /\ [][(pc = "umount" /\ files'.collections # files.collections) =>
           \A cid \in DOMAIN coll_map :
             files.coll[cid] = File(encode_collection(colls, objs, coll_map[cid]))]_vars

\* an umount that wrote the file of collection 1 and failed on that of
\* collection 2: the manifest is the one of the umount before and lists 1
C16_Witness ==
  /\ pc = "idle" /\ lastcall = [call |-> "umount", outcome |-> "throws"]
  /\ collections = {1, 2}
  /\ Listing = {1}
  /\ files.coll[1] = File(encode_collection(colls, objs, coll_map[1]))
  /\ files.coll[2] = NoFile

\* C19: when a mount call completes, used_bytes is the sum of the content
\* lengths of the objects of coll_map's collections and coll_map holds
\* exactly the collections of the persisted manifest.
C19_MountCounts ==
  [][(MountStep /\ lastcall'.outcome = "ok") =>
       /\ used_bytes' = LiveBytes'
       /\ DOMAIN coll_map' = Listing]_vars

====
